---- MODULE Spec2Model ----
(***************************************************************************)
(* Fraud Manager Backend: the block check, the query registration and the  *)
(* background fraud-rule evaluation of src/main.py, the request models of  *)
(* src/app/models.py and the block-list seeding of                         *)
(* src/populate_firestore.py, over the two Firestore collections           *)
(* "queries" (Event Store) and "blocked_phone_numbers" (Block Registry).   *)
(*                                                                         *)
(* Strings are sequences of one-character strings, so that                 *)
(* clean_string_regex is a real filter.  Time is counted in days.          *)
(***************************************************************************)
EXTENDS Integers, Sequences, FiniteSets

VARIABLES
    now,       \* the wall clock read by datetime.now(), in days
    queries,   \* collection "queries": the documents in insertion order
    blocked,   \* collection "blocked_phone_numbers": a set of documents
    tasks,     \* the background tasks added by register_query, in order
    response,  \* the last HTTP response sent, with the request it answers
    written,   \* history: every document handed to a successful set()
    events,    \* number of environment events so far: a store operation
               \* that failed, a day that passed, a run of the seeding script
    cleaned    \* the calls of clean_string_regex made on one input string:
               \* the argument and the value each call returned

vars == <<now, queries, blocked, tasks, response, written, events, cleaned>>

----------------------------------------------------------------------------
(* Bounds of the model *)

\* At most this many environment events in a behaviour.
MaxEvents == 1

\* The background tasks a behaviour may hold: register_query adds one
\* while a slot is free, so at most two evaluations run concurrently.
TaskSlots == {1, 2}

----------------------------------------------------------------------------
(* Configuration, src/main.py:25-41 *)

MAX_DISTINCT_NATIONAL_IDS == 3

DAY_PERIOD == 1

WEEK_PERIOD == 7

MONTH_PERIOD == 30

DIALOGFLOW_MESSAGES ==
    [ERROR_EXTRACTING_PARAMS |-> "No se pudo obtener el numero de telefono o el rut.",
     BLOCKED_NUMBER |-> "Este numero de telefono ha sido bloqueado por actividad sospechosa.",
     ALLOWED_NUMBER |-> "Numero de telefono permitido."]

\* Mutant of Periods: the loop goes from the shortest period to the longest.
PeriodsShortestFirst ==
    << [days |-> DAY_PERIOD, period_name |-> "day"],
       [days |-> WEEK_PERIOD, period_name |-> "week"],
       [days |-> MONTH_PERIOD, period_name |-> "month"] >>

\* The (days, period_name) list the evaluation loop iterates over.
Periods ==
    << [days |-> MONTH_PERIOD, period_name |-> "month"],
       [days |-> WEEK_PERIOD, period_name |-> "week"],
       [days |-> DAY_PERIOD, period_name |-> "day"] >>

\* f"Automatic block (rule: {period_name} period)"
Reason(period_name) ==
    CASE period_name = "month" -> "Automatic block (rule: month period)"
      [] period_name = "week" -> "Automatic block (rule: week period)"
      [] period_name = "day" -> "Automatic block (rule: day period)"

----------------------------------------------------------------------------
(* Strings and normalisation *)

Letters == {"A", "B", "C", "D", "E", "a"}

Digits == {"1", "2"}

\* The character class [a-zA-Z0-9] of the regular expression.
IsAlnum(c) == c \in Letters \cup Digits

\* Mutant of clean_string_regex: the characters kept are those str.isalnum
\* accepts, which include the letters outside ASCII.
clean_string_isalnum(input_string) ==
    LET Keeps(c) == IsAlnum(c) \/ c = "U+00E9" IN SelectSeq(input_string, Keeps)

\* re.sub(r"[^a-zA-Z0-9]", "", input_string)
clean_string_regex(input_string) == SelectSeq(input_string, IsAlnum)

\* The first two sample numbers, "+56911111111" and "+56922222222",
\* shortened to their sign and one digit.
SAMPLE_PHONE_NUMBERS == << <<"+", "1">>, <<"+", "2">> >>

\* A field that is absent from the request body (or is not a string).
Absent == <<"<absent>">>

\* Caller ids and national ids as the conversational front end sends them.
RawPhones == { <<"+", "1">>, <<"-">> }

RawNationalIds == { <<"A", "-">>, <<"-">> }

\* The request bodies: a path, and the two fields the models declare
\* (CheckRequest declares no national id).
Requests ==
    [path : {"/phone-numbers:check/"},
     caller_id : RawPhones \cup {Absent},
     national_id : {Absent}]
    \cup
    [path : {"/queries/"},
     caller_id : RawPhones,
     national_id : RawNationalIds \cup {Absent}]

\* Pydantic validation of CheckRequest and QueryRequest: every declared
\* field is required, extra fields are ignored.
Valid(req) ==
    /\ req.caller_id # Absent
    /\ req.path = "/queries/" => req.national_id # Absent

----------------------------------------------------------------------------
(* The Firestore collections *)

\* Mutant of unique_national_ids: the matching documents are counted, not
\* their distinct national ids (a list where the code builds a set).
unique_national_ids_per_document(store, p, limit_timestamp) ==
    { <<store[k].national_id, k>> :
        k \in { j \in 1..Len(store) :
                  /\ store[j].phone_number = p
                  /\ store[j].query_timestamp >= limit_timestamp } }

\* Mutant of unique_national_ids: the comparison with the limit is turned
\* round, the documents older than the limit are the ones read.
unique_national_ids_before_limit(store, p, limit_timestamp) ==
    { store[k].national_id :
        k \in { j \in 1..Len(store) :
                  /\ store[j].phone_number = p
                  /\ store[j].query_timestamp <= limit_timestamp } }

\* Mutant of unique_national_ids: the query is answered from the collection
\* as it was before the latest document was added.
unique_national_ids_stale(store, p, limit_timestamp) ==
    { store[k].national_id :
        k \in { j \in 1..(Len(store) - 1) :
                  /\ store[j].phone_number = p
                  /\ store[j].query_timestamp >= limit_timestamp } }

\* Mutant of unique_national_ids: the filter on the phone number is
\* missing.
unique_national_ids_of_any_phone(store, p, limit_timestamp) ==
    { store[k].national_id :
        k \in { j \in 1..Len(store) :
                  store[j].query_timestamp >= limit_timestamp } }

\* The national ids of the documents of "queries" matching
\* phone_number == p and query_timestamp >= limit_timestamp.
unique_national_ids(store, p, limit_timestamp) ==
    { store[k].national_id :
        k \in { j \in 1..Len(store) :
                  /\ store[j].phone_number = p
                  /\ store[j].query_timestamp >= limit_timestamp } }

\* Mutant of DocSet: the write replaces the collection instead of one
\* document.
DocSetDropsOthers(coll, id, data) ==
    { [id |-> id, reason |-> data.reason,
       block_timestamp |-> data.block_timestamp, agent_id |-> data.agent_id] }

\* Mutant of DocSet: the write adds a document and leaves an older one
\* with the same id in place (add() where the code calls set()).
DocSetKeepsOld(coll, id, data) ==
    coll \cup
    { [id |-> id, reason |-> data.reason,
       block_timestamp |-> data.block_timestamp, agent_id |-> data.agent_id] }

\* DocumentReference.set(data): the document with this id is replaced as a
\* whole, or created.
DocSet(coll, id, data) ==
    { d \in coll : d.id # id } \cup
    { [id |-> id, reason |-> data.reason,
       block_timestamp |-> data.block_timestamp, agent_id |-> data.agent_id] }

\* DocumentReference.get().exists
DocExists(coll, id) == \E d \in coll : d.id = id

\* A store operation may fail; the number of environment events is bounded.
MayFail(ok) == ok \/ events < MaxEvents

Failed(ok) == IF ok THEN events ELSE events + 1

----------------------------------------------------------------------------
(* Initial state *)

Clock0 == MONTH_PERIOD + 1

Obs(p, n, age) ==
    [phone_number |-> p, national_id |-> n, query_timestamp |-> Clock0 - age]

\* What the Event Store may hold when the service starts: observations
\* recorded by earlier runs, already normalised.
SeedStores ==
    { << Obs(<<"1">>, <<"A">>, WEEK_PERIOD + 1) >>,
      << Obs(<<"1">>, <<"B">>, 0), Obs(<<"1">>, <<"C">>, 0),
         Obs(<<"1">>, <<"D">>, 0), Obs(<<"1">>, <<"E">>, 0) >>,
      << Obs(<<"1">>, <<"B">>, DAY_PERIOD + 1), Obs(<<"1">>, <<"C">>, DAY_PERIOD + 2),
         Obs(<<"1">>, <<"D">>, WEEK_PERIOD - 1) >>,
      << Obs(<<"1">>, <<"B">>, 0), Obs(<<"1">>, <<"C">>, MONTH_PERIOD),
         Obs(<<"2">>, <<"D">>, 0), Obs(<<"2">>, <<"E">>, 0) >> }

NoResponse == [path |-> "none"]

\* clean_string_regex has not been called on its own.
NoCall == [pc |-> "none"]

Init ==
    /\ now = Clock0
    /\ queries \in SeedStores
    /\ blocked = {}
    /\ tasks = << >>
    /\ response = NoResponse
    /\ written = {}
    /\ events = 0
    /\ cleaned = NoCall

----------------------------------------------------------------------------
(* Responses *)

\* build_dialogflow_response(block, message)
build_dialogflow_response(block, message) ==
    [sessionInfo |-> [parameters |-> [block |-> block]],
     fulfillment_response |-> message]

\* A response, with what identifies the request it answers: the path, the
\* caller id of a check, and the required fields the body lacked.
Respond(req, status_code, content) ==
    [path |-> req.path,
     caller_id |-> IF req.path = "/queries/" THEN Absent ELSE req.caller_id,
     missing |-> { f \in {"caller_id", "national_id"} :
                     \/ f = "caller_id" /\ req.caller_id = Absent
                     \/ /\ f = "national_id" /\ req.path = "/queries/"
                        /\ req.national_id = Absent },
     status_code |-> status_code, content |-> content]

\* validation_exception_handler: the request body did not validate.
validation_exception_handler(req) ==
    /\ ~Valid(req)
    /\ response' =
         IF req.path = "/queries/"
         THEN Respond(req, 422, [detail |-> "validation error"])
         ELSE Respond(req, 400,
                  build_dialogflow_response(TRUE,
                      DIALOGFLOW_MESSAGES.ERROR_EXTRACTING_PARAMS))
    /\ UNCHANGED <<now, queries, blocked, tasks, written, events, cleaned>>

\* check_phone_number: one lookup in the Block Registry, which may raise.
check_phone_number(req, ok) ==
    /\ req.path = "/phone-numbers:check/"
    /\ Valid(req)
    /\ MayFail(ok)
    /\ LET phone_number == clean_string_regex(req.caller_id) IN
       response' =
         IF ~ok
         THEN Respond(req, 500, [detail |-> "Internal Server Error"])
         ELSE IF DocExists(blocked, phone_number)
         THEN Respond(req, 200,
                  build_dialogflow_response(TRUE, DIALOGFLOW_MESSAGES.BLOCKED_NUMBER))
         ELSE Respond(req, 200,
                  build_dialogflow_response(FALSE, DIALOGFLOW_MESSAGES.ALLOWED_NUMBER))
    /\ events' = Failed(ok)
    /\ UNCHANGED <<now, queries, blocked, tasks, written, cleaned>>

\* background_tasks.add_task(update_blocked_phone_numbers, phone_number,
\* queried_national_id): the task before its first step.  obs is the place
\* in "queries" of the document the task added, 0 while it added none.
add_task(phone_number, queried_national_id) ==
    [phone_number |-> phone_number,
     queried_national_id |-> queried_national_id,
     pc |-> "add", i |-> 1, added |-> "none", obs |-> 0,
     reads |-> [k \in 1..Len(Periods) |-> [st |-> "none", ids |-> {}, at |-> 0]],
     sets |-> [k \in 1..Len(Periods) |-> "none"]]

\* register_query: both identifiers are cleaned and the evaluation is added
\* as a background task; the response does not wait for it.
register_query(req) ==
    /\ req.path = "/queries/"
    /\ Valid(req)
    /\ Len(tasks) < Cardinality(TaskSlots)
    /\ LET phone_number == clean_string_regex(req.caller_id)
           queried_national_id == clean_string_regex(req.national_id)
       IN tasks' = Append(tasks, add_task(phone_number, queried_national_id))
    /\ response' = Respond(req, 200, [status |-> "ok"])
    /\ UNCHANGED <<now, queries, blocked, written, events, cleaned>>

----------------------------------------------------------------------------
(* update_blocked_phone_numbers, one action per awaited store operation *)

\* Mutant of NextPeriod: the body is tried again for the same period (a
\* retry loop where the code has a plain for).
NextPeriodRetries(t) == [t EXCEPT !.pc = "read"]

\* Where the loop goes after the body for period i ends without a break.
NextPeriod(t) ==
    IF t.i < Len(Periods)
    THEN [t EXCEPT !.pc = "read", !.i = t.i + 1]
    ELSE [t EXCEPT !.pc = "done"]

\* Mutant of AddQuery: a failed add() ends the function, no period is read.
AddQueryStopsOnFailure(n, ok) ==
    /\ n \in 1..Len(tasks)
    /\ tasks[n].pc = "add"
    /\ MayFail(ok)
    /\ queries' =
         IF ok
         THEN Append(queries,
                  [phone_number |-> tasks[n].phone_number,
                   national_id |-> tasks[n].queried_national_id,
                   query_timestamp |-> now])
         ELSE queries
    /\ tasks' = [tasks EXCEPT ![n] =
                   [@ EXCEPT !.pc = IF ok THEN "read" ELSE "done", !.i = 1,
                             !.added = IF ok THEN "ok" ELSE "fail",
                             !.obs = IF ok THEN Len(queries) + 1 ELSE 0]]
    /\ events' = Failed(ok)
    /\ UNCHANGED <<now, blocked, response, written, cleaned>>

\* Mutant of AddQuery: the observation of a number that has a BlockEntry is
\* not added (the registry is looked up before recording).
AddQuerySkipsBlocked(n, ok) ==
    /\ n \in 1..Len(tasks)
    /\ tasks[n].pc = "add"
    /\ MayFail(ok)
    /\ queries' =
         IF ok /\ ~DocExists(blocked, tasks[n].phone_number)
         THEN Append(queries,
                  [phone_number |-> tasks[n].phone_number,
                   national_id |-> tasks[n].queried_national_id,
                   query_timestamp |-> now])
         ELSE queries
    /\ tasks' = [tasks EXCEPT ![n] =
                   IF ok /\ DocExists(blocked, tasks[n].phone_number)
                   THEN [@ EXCEPT !.pc = "done"]
                   ELSE [@ EXCEPT !.pc = "read", !.i = 1,
                                  !.added = IF ok THEN "ok" ELSE "fail",
                                  !.obs = IF ok THEN Len(queries) + 1 ELSE 0]]
    /\ events' = Failed(ok)
    /\ UNCHANGED <<now, blocked, response, written, cleaned>>

\* db.collection("queries").add(...), inside try/except: a failure is
\* logged and the function goes on.
AddQuery(n, ok) ==
    /\ n \in 1..Len(tasks)
    /\ tasks[n].pc = "add"
    /\ MayFail(ok)
    /\ queries' =
         IF ok
         THEN Append(queries,
                  [phone_number |-> tasks[n].phone_number,
                   national_id |-> tasks[n].queried_national_id,
                   query_timestamp |-> now])
         ELSE queries
    /\ tasks' = [tasks EXCEPT ![n] =
                   [@ EXCEPT !.pc = "read", !.i = 1,
                             !.added = IF ok THEN "ok" ELSE "fail",
                             !.obs = IF ok THEN Len(queries) + 1 ELSE 0]]
    /\ events' = Failed(ok)
    /\ UNCHANGED <<now, blocked, response, written, cleaned>>

\* Mutant of ReadPeriod: a failed read ends the function (the try is
\* around the loop instead of inside it).
ReadPeriodStopsOnFailure(n, ok) ==
    /\ n \in 1..Len(tasks)
    /\ tasks[n].pc = "read"
    /\ MayFail(ok)
    /\ LET t == tasks[n]
           limit_timestamp == now - Periods[t.i].days
           ids == unique_national_ids(queries, t.phone_number, limit_timestamp)
           seen == [t EXCEPT !.reads[t.i] =
                       [st |-> IF ok THEN "ok" ELSE "fail",
                        ids |-> IF ok THEN ids ELSE {},
                        at |-> Len(queries)]]
       IN tasks' = [tasks EXCEPT ![n] =
                      IF ~ok THEN [seen EXCEPT !.pc = "done"]
                      ELSE IF Cardinality(ids) >= MAX_DISTINCT_NATIONAL_IDS
                      THEN [seen EXCEPT !.pc = "set"]
                      ELSE NextPeriod(seen)]
    /\ events' = Failed(ok)
    /\ UNCHANGED <<now, queries, blocked, response, written, cleaned>>

\* The limit of period i and the streamed query over "queries"; the rule
\* len(unique_national_ids) >= MAX_DISTINCT_NATIONAL_IDS decides whether
\* the block is written next.  A failure is caught and the loop goes on.
ReadPeriod(n, ok) ==
    /\ n \in 1..Len(tasks)
    /\ tasks[n].pc = "read"
    /\ MayFail(ok)
    /\ LET t == tasks[n]
           limit_timestamp == now - Periods[t.i].days
           ids == unique_national_ids(queries, t.phone_number, limit_timestamp)
           seen == [t EXCEPT !.reads[t.i] =
                       [st |-> IF ok THEN "ok" ELSE "fail",
                        ids |-> IF ok THEN ids ELSE {},
                        at |-> Len(queries)]]
       IN tasks' = [tasks EXCEPT ![n] =
                      IF ok /\ Cardinality(ids) >= MAX_DISTINCT_NATIONAL_IDS
                      THEN [seen EXCEPT !.pc = "set"]
                      ELSE NextPeriod(seen)]
    /\ events' = Failed(ok)
    /\ UNCHANGED <<now, queries, blocked, response, written, cleaned>>

\* Mutant of AutomaticBlock: the reason always names the shortest period.
AutomaticBlockNamesDay(period_name) ==
    [reason |-> Reason("day"),
     block_timestamp |-> now,
     agent_id |-> "automatic_block"]

\* The document the automatic path writes for period_name.
AutomaticBlock(period_name) ==
    [reason |-> Reason(period_name),
     block_timestamp |-> now,
     agent_id |-> "automatic_block"]

\* db.collection("blocked_phone_numbers").document(phone_number).set(...)
\* and the break; a failure is caught by the same except and the loop
\* goes on with the next period.
SetBlock(n, ok) ==
    /\ n \in 1..Len(tasks)
    /\ tasks[n].pc = "set"
    /\ MayFail(ok)
    /\ LET t == tasks[n]
           data == AutomaticBlock(Periods[t.i].period_name)
           done == [t EXCEPT !.sets[t.i] = IF ok THEN "ok" ELSE "fail"]
       IN /\ blocked' = IF ok THEN DocSet(blocked, t.phone_number, data) ELSE blocked
          /\ written' = IF ok
                        THEN written \cup DocSet({}, t.phone_number, data)
                        ELSE written
          /\ tasks' = [tasks EXCEPT ![n] =
                         IF ok THEN [done EXCEPT !.pc = "done"]
                         ELSE NextPeriod(done)]
    /\ events' = Failed(ok)
    /\ UNCHANGED <<now, queries, response, cleaned>>

----------------------------------------------------------------------------
(* populate_firestore.py *)

\* The documents of one batch: the first two sample numbers, keyed by the
\* sample strings as they are.
PopulateBatch ==
    << [id |-> SAMPLE_PHONE_NUMBERS[1],
        data |-> [reason |-> "Reported by customer for fraudulent call",
                  block_timestamp |-> now,
                  agent_id |-> "Conversational Agent"]],
       [id |-> SAMPLE_PHONE_NUMBERS[2],
        data |-> [reason |-> "Suspicious activity detected.",
                  block_timestamp |-> now,
                  agent_id |-> "Conversational Agent"]] >>

\* populate_blocked_phone_numbers: two set() in one batch, committed
\* together; main() catches a failure.
populate_blocked_phone_numbers(ok) ==
    /\ events < MaxEvents
    /\ LET b == PopulateBatch
           after == DocSet(DocSet(blocked, b[1].id, b[1].data), b[2].id, b[2].data)
           docs == DocSet({}, b[1].id, b[1].data) \cup DocSet({}, b[2].id, b[2].data)
       IN /\ blocked' = IF ok THEN after ELSE blocked
          /\ written' = IF ok THEN written \cup docs ELSE written
    /\ events' = events + 1
    /\ UNCHANGED <<now, queries, tasks, response, cleaned>>

\* Time passes.
Tick ==
    /\ events < MaxEvents
    /\ now' = now + 1
    /\ events' = events + 1
    /\ UNCHANGED <<queries, blocked, tasks, response, written, cleaned>>

----------------------------------------------------------------------------

Next ==
    \/ \E req \in Requests : validation_exception_handler(req)
    \/ \E req \in Requests, ok \in BOOLEAN : check_phone_number(req, ok)
    \/ \E req \in Requests : register_query(req)
    \/ \E n \in DOMAIN tasks, ok \in BOOLEAN : AddQuery(n, ok)
    \/ \E n \in DOMAIN tasks, ok \in BOOLEAN : ReadPeriod(n, ok)
    \/ \E n \in DOMAIN tasks, ok \in BOOLEAN : SetBlock(n, ok)
    \/ \E ok \in BOOLEAN : populate_blocked_phone_numbers(ok)
    \/ Tick

Spec == Init /\ [][Next]_vars

\* A step of some background task.  The event loop runs every task that
\* was added until it returns: the store client answers or raises at each
\* await.
TaskStep ==
    \E n \in DOMAIN tasks, ok \in BOOLEAN :
       AddQuery(n, ok) \/ ReadPeriod(n, ok) \/ SetBlock(n, ok)

SpecFair == Spec /\ WF_vars(TaskStep)

----------------------------------------------------------------------------
(* clean_string_regex on its own *)

\* The longest input string.
MaxLen == 3

\* The characters of the input strings: an upper-case and a lower-case
\* letter, a digit, a sign, a space, and the letter e with acute accent,
\* which is one character outside ASCII, written by its code point.
InputChars == {"A", "a", "1", "+", " ", "U+00E9"}

InputStrings == UNION { [1..k -> InputChars] : k \in 0..MaxLen }

\* The service holds nothing and the function is called with a string.
InitClean ==
    /\ now = Clock0
    /\ queries = << >>
    /\ blocked = {}
    /\ tasks = << >>
    /\ response = NoResponse
    /\ written = {}
    /\ events = 0
    /\ cleaned \in { [pc |-> "called", input_string |-> x,
                       once |-> << >>, twice |-> << >>] : x \in InputStrings }

\* The call returns.
CleanOnce ==
    /\ cleaned.pc = "called"
    /\ cleaned' = [cleaned EXCEPT !.pc = "returned",
                                  !.once = clean_string_regex(cleaned.input_string)]
    /\ UNCHANGED <<now, queries, blocked, tasks, response, written, events>>

\* The function is called on its own result, and returns.
CleanTwice ==
    /\ cleaned.pc = "returned"
    /\ cleaned' = [cleaned EXCEPT !.pc = "returned twice",
                                  !.twice = clean_string_regex(cleaned.once)]
    /\ UNCHANGED <<now, queries, blocked, tasks, response, written, events>>

NextClean ==
    \/ CleanOnce
    \/ CleanTwice

SpecClean == InitClean /\ [][NextClean]_vars

----------------------------------------------------------------------------
(* A burst of queries for one phone number *)

\* The national ids of the queries of the burst, pairwise distinct.
BurstIds == << <<"A">>, <<"B">>, <<"C">>, <<"D">>, <<"E">> >>

\* register_query has answered MAX_DISTINCT_NATIONAL_IDS queries for one
\* phone number, one national id each, and none of the background tasks
\* has started; the store holds nothing for the number.
InitBurst ==
    /\ now = Clock0
    /\ queries = << >>
    /\ blocked = {}
    /\ tasks = [k \in 1..MAX_DISTINCT_NATIONAL_IDS |->
                  add_task(clean_string_regex(<<"+", "1">>),
                           clean_string_regex(BurstIds[k]))]
    /\ response = Respond([path |-> "/queries/", caller_id |-> <<"+", "1">>,
                           national_id |-> BurstIds[MAX_DISTINCT_NATIONAL_IDS]],
                          200, [status |-> "ok"])
    /\ written = {}
    /\ events = 0
    /\ cleaned = NoCall

\* The background tasks run interleaved at their awaits.
NextBurst ==
    \/ \E n \in DOMAIN tasks, ok \in BOOLEAN : AddQuery(n, ok)
    \/ \E n \in DOMAIN tasks, ok \in BOOLEAN : ReadPeriod(n, ok)
    \/ \E n \in DOMAIN tasks, ok \in BOOLEAN : SetBlock(n, ok)

SpecBurst == InitBurst /\ [][NextBurst]_vars

----------------------------------------------------------------------------
(* Vocabulary of the properties *)

Threshold == MAX_DISTINCT_NATIONAL_IDS

\* A response body that is the decision (block, message).
IsDecision(content, block, message) ==
    /\ DOMAIN content = {"sessionInfo", "fulfillment_response"}
    /\ content.sessionInfo.parameters.block = block
    /\ content.fulfillment_response = message

\* The response answers a check whose body carried the caller id c.
AnswersCheck(r, c) ==
    /\ r.path = "/phone-numbers:check/"
    /\ r.caller_id = c

\* The phone number written raw has an entry in the Block Registry: two
\* strings are the same number when they normalise to the same key.
HasBlockEntry(raw) ==
    \E d \in blocked : clean_string_regex(d.id) = clean_string_regex(raw)

\* Every national id ever stored for the phone number p.
IdsEver(p) ==
    { queries[k].national_id :
        k \in { j \in DOMAIN queries : queries[j].phone_number = p } }

\* The normalised phone numbers of the model.
Phones ==
    { clean_string_regex(c) : c \in RawPhones } \cup
    { queries[k].phone_number : k \in DOMAIN queries }

\* The number of distinct ids stored now for p within period i.
CountNow(p, i) ==
    Cardinality(unique_national_ids(queries, p, now - Periods[i].days))

\* Task t read period i successfully and the rule triggered on it.
Triggered(t, i) ==
    /\ t.reads[i].st = "ok"
    /\ Cardinality(t.reads[i].ids) >= Threshold

\* An observation for p was appended after the store held `from` documents
\* and before it held more than `to`.
AppendedBetween(p, from, to) ==
    \E k \in (from + 1)..to : queries[k].phone_number = p

----------------------------------------------------------------------------
(* C1 *)

\* C1: whenever check_phone_number answers for a caller id, a phone number
\* that has a BlockEntry gets block=true with BLOCKED_NUMBER, and
\* block=false with ALLOWED_NUMBER is returned only when the number has no
\* BlockEntry.
C1_BlockedNumberIsRefused ==
    [][ \A c \in RawPhones :
          (response' # response /\ AnswersCheck(response', c)) =>
             /\ HasBlockEntry(c) =>
                   /\ response'.status_code = 200
                   /\ IsDecision(response'.content, TRUE,
                                 DIALOGFLOW_MESSAGES.BLOCKED_NUMBER)
             /\ IsDecision(response'.content, FALSE,
                           DIALOGFLOW_MESSAGES.ALLOWED_NUMBER)
                   => ~HasBlockEntry(c) ]_vars

----------------------------------------------------------------------------
(* C2 *)

\* C2 as stated: when an evaluation writes a BlockEntry, its reason names
\* the shortest period in which the distinct-id count reaches the
\* threshold, so no period shorter than the one named reaches it.
C2_ReasonNamesShortestWindow ==
    [][ \A n \in DOMAIN tasks :
          (tasks[n].pc = "set" /\ tasks'[n].pc = "done") =>
             \A j \in DOMAIN Periods :
                j > tasks[n].i => CountNow(tasks[n].phone_number, j) < Threshold ]_vars

\* C2 amended: the reason written names the period whose read triggered the
\* write, and that is the longest period (the first in the order month,
\* week, day) whose read reached the threshold and whose write did not
\* fail: in both examples it is the month.
C2_ReasonNamesTriggeringWindow ==
    \A n \in DOMAIN tasks : \A i \in DOMAIN Periods :
       tasks[n].sets[i] = "ok" =>
          /\ Triggered(tasks[n], i)
          /\ \A j \in DOMAIN Periods :
                (Triggered(tasks[n], j) /\ tasks[n].sets[j] # "fail")
                   => Periods[j].days <= Periods[i].days
          /\ \E d \in written :
                /\ d.id = tasks[n].phone_number
                /\ d.agent_id = "automatic_block"
                /\ d.reason = Reason(Periods[i].period_name)
          /\ (\A j \in DOMAIN Periods : tasks[n].sets[j] # "fail")
                => \A j \in DOMAIN Periods :
                      Triggered(tasks[n], j) => j = i

\* The first example: more than threshold ids within the last day, and the
\* evaluation has written the block of the month period.
C2_Witness ==
    \E n \in DOMAIN tasks :
       /\ tasks[n].sets[1] = "ok"
       /\ Periods[1].period_name = "month"
       /\ CountNow(tasks[n].phone_number, 3) > Threshold
       /\ \E d \in blocked :
             d.id = tasks[n].phone_number /\ d.reason = Reason("month")

----------------------------------------------------------------------------
(* C3 *)

\* C3: a phone number for which one distinct national id at most was ever
\* stored has no BlockEntry, however many observations repeat that id, and
\* no check for it has answered block=true: a decision returned for it is
\* block=false with ALLOWED_NUMBER.
C3_SingleIdNeverBlocked ==
    \A p \in Phones :
       Cardinality(IdsEver(p)) <= 1 =>
          /\ ~DocExists(blocked, p)
          /\ \A c \in RawPhones :
                (/\ clean_string_regex(c) = p
                 /\ AnswersCheck(response, c)
                 /\ response.status_code = 200)
                => IsDecision(response.content, FALSE,
                              DIALOGFLOW_MESSAGES.ALLOWED_NUMBER)

\* Threshold-many observations of one id for a number, both evaluations
\* over, and a check for the number answered.
C3_Witness ==
    \E p \in Phones :
       /\ p # << >>
       /\ Cardinality(IdsEver(p)) = 1
       /\ Cardinality({ k \in DOMAIN queries : queries[k].phone_number = p })
             >= Threshold
       /\ Len(tasks) = 2
       /\ \A n \in DOMAIN tasks :
             tasks[n].phone_number = p /\ tasks[n].pc = "done"
       /\ \E c \in RawPhones :
             /\ clean_string_regex(c) = p
             /\ AnswersCheck(response, c)
             /\ IsDecision(response.content, FALSE,
                           DIALOGFLOW_MESSAGES.ALLOWED_NUMBER)

----------------------------------------------------------------------------
(* C4 *)

\* C4: no step removes a BlockEntry: a document id present in the Block
\* Registry is present after every step, failed store operations included.
C4_NeverUnblocks ==
    [][ \A d \in blocked : DocExists(blocked', d.id) ]_vars

\* A number is blocked by one evaluation, the write of another evaluation
\* for it has failed, and a check for the number has answered block=true.
C4_Witness ==
    \E d \in blocked : \E n \in DOMAIN tasks : \E c \in RawPhones :
       /\ d.agent_id = "automatic_block"
       /\ tasks[n].phone_number = d.id
       /\ tasks[n].pc = "done"
       /\ \E i \in DOMAIN Periods : tasks[n].sets[i] = "fail"
       /\ clean_string_regex(c) = d.id
       /\ AnswersCheck(response, c)
       /\ IsDecision(response.content, TRUE, DIALOGFLOW_MESSAGES.BLOCKED_NUMBER)

----------------------------------------------------------------------------
(* C5 *)

\* C5: the Block Registry holds one document per id at most, and every
\* document in it is, field for field, a document some single set() wrote,
\* with all three fields present.
C5_EntryIsOneWholeWrite ==
    \A d \in blocked :
       /\ \A e \in blocked : e.id = d.id => e = d
       /\ d \in written
       /\ DOMAIN d = {"id", "reason", "block_timestamp", "agent_id"}

\* Two evaluations for one number have both written its BlockEntry.
C5_Witness ==
    /\ Len(tasks) = 2
    /\ tasks[1].phone_number = tasks[2].phone_number
    /\ \E i, j \in DOMAIN Periods :
          tasks[1].sets[i] = "ok" /\ tasks[2].sets[j] = "ok"
    /\ \E d \in blocked :
          d.id = tasks[1].phone_number /\ d.agent_id = "automatic_block"

----------------------------------------------------------------------------
(* C6 *)

\* C6: a query whose body lacks the national id is answered with the
\* decision block=true and ERROR_EXTRACTING_PARAMS, and the step appends
\* no observation and adds no background task.
C6_MissingNationalIdIsRefused ==
    [][ (/\ response' # response
         /\ response'.path = "/queries/"
         /\ "national_id" \in response'.missing)
        => /\ IsDecision(response'.content, TRUE,
                         DIALOGFLOW_MESSAGES.ERROR_EXTRACTING_PARAMS)
           /\ queries' = queries
           /\ tasks' = tasks ]_vars

----------------------------------------------------------------------------
(* C7 *)

\* C7: an identifier that normalises to the empty string ends the event at
\* once: no observation with an empty phone number or national id is
\* stored, and the evaluation of such an event completes no store operation
\* (no append, no period read, no BlockEntry write).
C7_EmptyIdentifierIsRejected ==
    /\ \A k \in DOMAIN queries :
          /\ queries[k].phone_number # << >>
          /\ queries[k].national_id # << >>
    /\ \A n \in DOMAIN tasks :
          (tasks[n].phone_number = << >> \/ tasks[n].queried_national_id = << >>)
             => /\ tasks[n].added # "ok"
                /\ \A i \in DOMAIN Periods :
                      tasks[n].reads[i].st # "ok" /\ tasks[n].sets[i] # "ok"

----------------------------------------------------------------------------
(* C8 *)

\* C8: a check whose Block Registry lookup fails is still answered with a
\* decision, the conservative one: block=true with BLOCKED_NUMBER.
C8_LookupFailureBlocks ==
    [][ \A c \in RawPhones :
          (/\ response' # response
           /\ AnswersCheck(response', c)
           /\ events' # events)
          => /\ response'.status_code = 200
             /\ IsDecision(response'.content, TRUE,
                           DIALOGFLOW_MESSAGES.BLOCKED_NUMBER) ]_vars

----------------------------------------------------------------------------
(* C9 *)

\* C9 as stated: within one evaluation the set read for a shorter period
\* is a subset of the set read for every longer period, and a block is
\* never written for the week or the day when the month read was below the
\* threshold, also when observations are appended meanwhile.
C9_ShorterWindowIsSubset ==
    \A n \in DOMAIN tasks : \A i, j \in DOMAIN Periods :
       (/\ Periods[j].days < Periods[i].days
        /\ tasks[n].reads[i].st = "ok"
        /\ tasks[n].reads[j].st = "ok")
       => /\ tasks[n].reads[j].ids \subseteq tasks[n].reads[i].ids
          /\ (tasks[n].sets[j] = "ok" /\ Periods[i].period_name = "month")
                => Triggered(tasks[n], i)

\* C9 amended: the same, for two reads of one evaluation between which no
\* observation for the phone number was appended; when a block is written
\* for the week or the day although the month read was below the
\* threshold, an observation for the number was appended in between.
C9_SubsetWhileStoreUnchanged ==
    \A n \in DOMAIN tasks : \A i, j \in DOMAIN Periods :
       (/\ Periods[j].days < Periods[i].days
        /\ tasks[n].reads[i].st = "ok"
        /\ tasks[n].reads[j].st = "ok")
       => LET p == tasks[n].phone_number
              lo == IF tasks[n].reads[i].at < tasks[n].reads[j].at
                    THEN tasks[n].reads[i].at ELSE tasks[n].reads[j].at
              hi == IF tasks[n].reads[i].at < tasks[n].reads[j].at
                    THEN tasks[n].reads[j].at ELSE tasks[n].reads[i].at
          IN /\ ~AppendedBetween(p, lo, hi)
                   => tasks[n].reads[j].ids \subseteq tasks[n].reads[i].ids
             /\ (/\ tasks[n].sets[j] = "ok"
                 /\ Periods[i].period_name = "month"
                 /\ ~Triggered(tasks[n], i))
                   => AppendedBetween(p, lo, hi)

\* An evaluation has read the month and then the week with nothing appended
\* in between, and the week holds fewer ids than the month.
C9_Witness ==
    \E n \in DOMAIN tasks :
       /\ tasks[n].reads[1].st = "ok"
       /\ tasks[n].reads[2].st = "ok"
       /\ tasks[n].reads[1].at = tasks[n].reads[2].at
       /\ tasks[n].reads[2].ids # {}
       /\ tasks[n].reads[2].ids # tasks[n].reads[1].ids
       /\ tasks[n].reads[2].ids \subseteq tasks[n].reads[1].ids

----------------------------------------------------------------------------
(* C10 *)

\* C10: every document id of the Block Registry is a normalised phone
\* number, so that the id is what clean_string_regex makes of it.
C10_KeysAreNormalized ==
    \A d \in blocked : clean_string_regex(d.id) = d.id

----------------------------------------------------------------------------
(* C11 *)

\* The ASCII letters and digits among the characters of the model.
AsciiAlnum == {"A", "B", "C", "D", "E", "a", "1", "2"}

\* C11: clean_string_regex returns for every input string; what it returns
\* holds ASCII letters and digits only, namely every letter and digit of
\* the input, in the input's order and case (an empty result included);
\* and cleaning the result again returns the result.
C11_CleanIsIdempotentAndTotal ==
    /\ cleaned.pc = "called" => ENABLED CleanOnce
    /\ cleaned.pc \in {"returned", "returned twice"} =>
          LET x == cleaned.input_string
              y == cleaned.once
              kept == { k \in 1..Len(x) : x[k] \in AsciiAlnum }
          IN /\ \A k \in 1..Len(y) : y[k] \in AsciiAlnum
             /\ Len(y) = Cardinality(kept)
             /\ \A k \in 1..Len(y) :
                   \E j \in kept :
                      /\ Cardinality({ m \in kept : m < j }) = k - 1
                      /\ y[k] = x[j]
    /\ cleaned.pc = "returned" => ENABLED CleanTwice
    /\ cleaned.pc = "returned twice" => cleaned.twice = cleaned.once

\* A string of both cases with a sign and the letter outside ASCII was
\* cleaned twice, and another string was cleaned to the empty string.
C11_Witness ==
    /\ cleaned.pc = "returned twice"
    /\ \/ /\ cleaned.input_string = <<"+", "a", "U+00E9">>
          /\ cleaned.once = <<"a">>
       \/ /\ cleaned.input_string = <<"+", " ">>
          /\ cleaned.once = << >>

----------------------------------------------------------------------------
(* C12 *)

\* C12: an evaluation reads the periods in the order month, week, day: a
\* period is read only after every longer one; the first period in that
\* order whose read reaches the threshold has its write attempted, with its
\* name in the reason, and no write is attempted for a period that did not
\* reach it; once a write has succeeded the evaluation is over and no
\* shorter period has been read or written.
C12_LongestFirstAndStopAfterBlock ==
    \A n \in DOMAIN tasks : \A i \in DOMAIN Periods :
       LET t == tasks[n] IN
       /\ t.reads[i].st # "none" =>
             \A j \in DOMAIN Periods :
                Periods[j].days > Periods[i].days => t.reads[j].st # "none"
       /\ Triggered(t, i) <=> (t.sets[i] # "none" \/ (t.pc = "set" /\ t.i = i))
       /\ t.sets[i] = "ok" =>
             /\ t.pc = "done"
             /\ \A j \in DOMAIN Periods :
                   Periods[j].days < Periods[i].days =>
                      t.reads[j].st = "none" /\ t.sets[j] = "none"
             /\ \A j \in DOMAIN Periods :
                   Periods[j].days > Periods[i].days =>
                      ~Triggered(t, j) \/ t.sets[j] = "fail"
             /\ [id |-> t.phone_number,
                 reason |-> Reason(Periods[i].period_name),
                 block_timestamp |-> now,
                 agent_id |-> "automatic_block"]
                   \in { [d EXCEPT !.block_timestamp = now] : d \in written }

\* An evaluation read the month below the threshold, then the week at the
\* threshold, wrote the block of the week and never read the day.
C12_Witness ==
    \E n \in DOMAIN tasks :
       /\ tasks[n].pc = "done"
       /\ tasks[n].reads[1].st = "ok"
       /\ ~Triggered(tasks[n], 1)
       /\ Triggered(tasks[n], 2)
       /\ tasks[n].sets[2] = "ok"
       /\ tasks[n].reads[3].st = "none"
       /\ \E d \in blocked :
             d.id = tasks[n].phone_number /\ d.reason = Reason("week")

----------------------------------------------------------------------------
(* C13 *)

\* The national ids stored for the phone number of task t before its own
\* observation, inside period i at the time the observation was added.
IdsBeforeOwn(t, i) ==
    unique_national_ids(SubSeq(queries, 1, t.obs - 1), t.phone_number,
                        queries[t.obs].query_timestamp - Periods[i].days)

\* Task t, of a query with both identifiers, added its observation when
\* some period held threshold-1 distinct ids for the number, the queried id
\* not among them.
PushesToThreshold(t) ==
    /\ t.added = "ok"
    /\ t.phone_number # << >>
    /\ t.queried_national_id # << >>
    /\ \E i \in DOMAIN Periods :
          /\ Cardinality(IdsBeforeOwn(t, i)) = Threshold - 1
          /\ t.queried_national_id \notin IdsBeforeOwn(t, i)

\* No store operation of task t after its append failed, and no day passed
\* since the append.
RanUndisturbed(t) ==
    /\ \A i \in DOMAIN Periods : t.reads[i].st # "fail" /\ t.sets[i] # "fail"
    /\ now = queries[t.obs].query_timestamp

----------------------------------------------------------------------------
(* C14 *)

\* Every evaluation is over, every append succeeded and every read that was
\* made succeeded.
BurstOverWithoutReadFailure ==
    \A n \in DOMAIN tasks :
       /\ tasks[n].pc = "done"
       /\ tasks[n].added = "ok"
       /\ \A i \in DOMAIN Periods : tasks[n].reads[i].st # "fail"

\* The Event Store holds threshold distinct ids for the number of the burst.
StoreHoldsThreshold ==
    \A n \in DOMAIN tasks :
       Cardinality(IdsEver(tasks[n].phone_number)) >= Threshold

----------------------------------------------------------------------------
(* C15 *)

\* C15: a period whose read failed has no write (it decides nothing), and
\* the evaluation goes on: when it is over every shorter period has been
\* read, unless a write had succeeded before; a later period whose read
\* succeeded at the threshold has had its write attempted, and when that
\* write succeeded the number has a BlockEntry.
C15_ReadFailureSkipsOneWindowOnly ==
    \A n \in DOMAIN tasks : \A i \in DOMAIN Periods :
       LET t == tasks[n] IN
       t.reads[i].st = "fail" =>
          /\ t.sets[i] = "none"
          /\ t.pc # "set" \/ t.i # i
          /\ \A j \in DOMAIN Periods :
                (j > i /\ (t.pc = "done" \/ t.i > j)) =>
                   \/ t.reads[j].st # "none"
                   \/ \E k \in DOMAIN Periods : i < k /\ k < j /\ t.sets[k] = "ok"
          /\ \A j \in DOMAIN Periods :
                (j > i /\ t.pc = "done" /\ Triggered(t, j)) =>
                   /\ t.sets[j] # "none"
                   /\ t.sets[j] = "ok" => DocExists(blocked, t.phone_number)

\* The month read failed, the week read reached the threshold and its block
\* was written.
C15_Witness ==
    \E n \in DOMAIN tasks :
       /\ tasks[n].pc = "done"
       /\ tasks[n].reads[1].st = "fail"
       /\ Triggered(tasks[n], 2)
       /\ tasks[n].sets[2] = "ok"
       /\ \E d \in blocked :
             d.id = tasks[n].phone_number /\ d.reason = Reason("week")

----------------------------------------------------------------------------
(* C16 *)

\* C16: a failed append leaves the Event Store as it was and the evaluation
\* goes on to the first period; such an evaluation reads the periods
\* over the observations stored (the queried id counts only if it was
\* stored already), and when it is over the month has been read and
\* every period that reached the threshold has had its write attempted.
C16_AppendFailureDoesNotStop ==
    /\ [][ \A n \in DOMAIN tasks :
             (tasks[n].pc = "add" /\ tasks'[n].added = "fail")
             => /\ queries' = queries
                /\ tasks'[n].pc = "read" /\ tasks'[n].i = 1 ]_vars
    /\ [][ \A n \in DOMAIN tasks :
             (/\ tasks[n].added = "fail" /\ tasks[n].pc = "read"
              /\ tasks'[n].reads[tasks[n].i].st = "ok")
             => /\ tasks'[n].reads[tasks[n].i].ids =
                      unique_national_ids(queries, tasks[n].phone_number,
                                          now - Periods[tasks[n].i].days)
                /\ Cardinality(tasks'[n].reads[tasks[n].i].ids) >= Threshold
                      => tasks'[n].pc = "set" ]_vars
    /\ [][ \A n \in DOMAIN tasks :
             (tasks[n].added = "fail" /\ tasks[n].pc # "done" /\ tasks'[n].pc = "done")
             => /\ tasks'[n].reads[1].st # "none"
                /\ \/ \E i \in DOMAIN Periods : tasks'[n].sets[i] = "ok"
                   \/ \A i \in DOMAIN Periods : tasks'[n].reads[i].st # "none"
                /\ (\E i \in DOMAIN Periods : tasks'[n].sets[i] = "ok")
                      => DocExists(blocked', tasks[n].phone_number) ]_vars

\* The append failed, the store already held threshold ids for the number
\* in the month, and the evaluation wrote the block.
C16_Witness ==
    \E n \in DOMAIN tasks :
       /\ tasks[n].pc = "done"
       /\ tasks[n].added = "fail"
       /\ tasks[n].obs = 0
       /\ Triggered(tasks[n], 1)
       /\ tasks[n].sets[1] = "ok"
       /\ \E d \in blocked :
             d.id = tasks[n].phone_number /\ d.agent_id = "automatic_block"

----------------------------------------------------------------------------
(* C17 *)

\* C17 as stated: the evaluation of a query (both identifiers present) for
\* a phone number that has a BlockEntry appends no observation.
C17_BlockedNumberIsNotRecorded ==
    [][ \A n \in DOMAIN tasks :
          (/\ tasks[n].pc = "add" /\ tasks'[n].pc # "add"
           /\ tasks[n].phone_number # << >>
           /\ tasks[n].queried_national_id # << >>
           /\ DocExists(blocked, tasks[n].phone_number))
          => queries' = queries ]_vars

\* C17 amended: the Block Registry is looked up by check_phone_number only,
\* which appends nothing and adds no task whatever it answers;
\* register_query adds the task whether the number has a BlockEntry or not,
\* and the task appends the observation, BlockEntry or not, unless the
\* append fails.
C17_QueryIsRecordedBlockedOrNot ==
    [][ /\ (response' # response /\ response'.path = "/phone-numbers:check/")
           => queries' = queries /\ tasks' = tasks
        /\ (response' # response /\ response'.path = "/queries/"
              /\ response'.status_code = 200)
           => /\ Len(tasks') = Len(tasks) + 1
              /\ tasks'[Len(tasks')].pc = "add"
        /\ \A n \in DOMAIN tasks :
             (tasks[n].pc = "add" /\ tasks'[n].pc # "add" /\ events' = events)
             => /\ queries' = Append(queries,
                                    [phone_number |-> tasks[n].phone_number,
                                     national_id |-> tasks[n].queried_national_id,
                                     query_timestamp |-> now])
                /\ tasks'[n].pc = "read" ]_vars

\* A number was blocked, a day passed, a check for it answered BLOCKED,
\* and the observation of a later query for it is in the store.
C17_Witness ==
    \E n \in DOMAIN tasks : \E d \in blocked : \E c \in RawPhones :
       /\ d.id = tasks[n].phone_number
       /\ tasks[n].added = "ok"
       /\ queries[tasks[n].obs].query_timestamp > d.block_timestamp
       /\ clean_string_regex(c) = d.id
       /\ AnswersCheck(response, c)
       /\ IsDecision(response.content, TRUE, DIALOGFLOW_MESSAGES.BLOCKED_NUMBER)

----------------------------------------------------------------------------
(* C18 *)

\* The store operations task t has made: appends, reads, writes.
Appends(t) == IF t.added = "none" THEN 0 ELSE 1

Reads(t) == Cardinality({ i \in DOMAIN Periods : t.reads[i].st # "none" })

Writes(t) == Cardinality({ i \in DOMAIN Periods : t.sets[i] # "none" })

----------------------------------------------------------------------------
(* C19 *)

\* C19: a BlockEntry written by the automatic path for the phone number p
\* exists only if the Event Store holds observations for p with threshold
\* pairwise distinct national ids at least; the observations of other
\* phone numbers do not count.
C19_NoFalsePositive ==
    \A d \in blocked :
       d.agent_id = "automatic_block" =>
          \E ks \in SUBSET DOMAIN queries :
             /\ Cardinality(ks) = Threshold
             /\ \A k \in ks : queries[k].phone_number = d.id
             /\ \A k, m \in ks :
                   k # m => queries[k].national_id # queries[m].national_id

\* A number is blocked automatically with exactly threshold distinct ids
\* stored for it, while the store holds observations of another number and
\* the two numbers together have more ids than the blocked one.
C19_Witness ==
    \E d \in blocked :
       /\ d.agent_id = "automatic_block"
       /\ Cardinality(IdsEver(d.id)) = Threshold
       /\ \E k \in DOMAIN queries :
             /\ queries[k].phone_number # d.id
             /\ queries[k].national_id \notin IdsEver(d.id)

----------------------------------------------------------------------------
(* C20 *)

\* C20: a step of the automatic path that writes the BlockEntry of a phone
\* number reads nothing of the Block Registry and leaves one entry for the
\* number, the automatic one it wrote: reason, block_timestamp and agent_id
\* are those of this write, and no entry the number had before (manual or
\* automatic) remains.
C20_AutomaticWriteReplacesEntry ==
    [][ \A n \in DOMAIN tasks :
          (tasks[n].pc = "set" /\ tasks'[n].sets[tasks[n].i] = "ok")
          => \A d \in blocked' :
                clean_string_regex(d.id) = tasks[n].phone_number
                => d = [id |-> tasks[n].phone_number,
                        reason |-> Reason(Periods[tasks[n].i].period_name),
                        block_timestamp |-> now,
                        agent_id |-> "automatic_block"] ]_vars

====
